---- MODULE Spec2Model ----
(***************************************************************************)
(* The backend request pipeline of ai-chat-interface: the Express routes   *)
(* POST /api/chat, POST /api/validate-key and GET /api/models, the         *)
(* validation middleware in front of them, and the OpenAI helpers behind   *)
(* them.  Every request is an independent slot that moves through the      *)
(* middleware chain; the awaits in the helpers (the provider call and the  *)
(* demo delay) are the points where requests interleave.                   *)
(***************************************************************************)
EXTENDS Integers, Sequences, FiniteSets, TLC

\* Number of request slots handled concurrently.
NumRequests == 2

Requests == 1..NumRequests

(***************************************************************************)
(* JavaScript values of a JSON body.  A string is a sequence of runs       *)
(* [u |-> unit, k |-> count]: the unit repeated count times, so that a     *)
(* 4000-character message is one run.                                      *)
(***************************************************************************)
Undefined == [t |-> "undefined", s |-> <<>>, n |-> 0, b |-> FALSE]
Num(k) == [t |-> "number", s |-> <<>>, n |-> k, b |-> FALSE]
Bool(x) == [t |-> "boolean", s |-> <<>>, n |-> 0, b |-> x]
Str(runs) == [t |-> "string", s |-> runs, n |-> 0, b |-> FALSE]
Run(unit, count) == [u |-> unit, k |-> count]
Lit(unit) == Str(<<Run(unit, 1)>>)

\* The characters of a unit; a unit not listed is a single character.
UnitChars(u) ==
  CASE u = "sk-" -> <<"s", "k", "-">>
    [] u = "not-a-key" -> <<"n", "o", "t", "-", "a", "-", "k", "e", "y">>
    [] u = "SK-" -> <<"S", "K", "-">>
    [] u = "sk" -> <<"s", "k">>
    [] u = "Hi" -> <<"H", "i">>
    [] u = "&lt;" -> <<"&", "l", "t", ";">>
    [] u = "&gt;" -> <<"&", "g", "t", ";">>
    [] u = "gpt-3.5-turbo" ->
         <<"g", "p", "t", "-", "3", ".", "5", "-", "t", "u", "r", "b", "o">>
    [] u = "gpt-4" -> <<"g", "p", "t", "-", "4">>
    [] u = "invalid-model" ->
         <<"i", "n", "v", "a", "l", "i", "d", "-", "m", "o", "d", "e", "l">>
    [] OTHER -> <<u>>

RECURSIVE StrLen(_)
\* String.prototype.length
StrLen(runs) ==
  IF runs = <<>> THEN 0
  ELSE Len(UnitChars(Head(runs).u)) * Head(runs).k + StrLen(Tail(runs))

RECURSIVE Repeat(_, _)
Repeat(chars, k) == IF k = 0 THEN <<>> ELSE chars \o Repeat(chars, k - 1)

RECURSIVE Chars(_)
\* The string written out character by character.
Chars(runs) ==
  IF runs = <<>> THEN <<>>
  ELSE Repeat(UnitChars(Head(runs).u), Head(runs).k) \o Chars(Tail(runs))

\* ToBoolean of a body field.
Truthy(v) ==
  CASE v.t = "undefined" -> FALSE
    [] v.t = "number" -> v.n # 0
    [] v.t = "boolean" -> v.b
    [] v.t = "string" -> StrLen(v.s) > 0

\* The text of a one-unit string, "" for anything else.
Text(v) == IF v.t = "string" /\ Len(v.s) = 1 /\ v.s[1].k = 1 THEN v.s[1].u ELSE ""


(***************************************************************************)
(* middleware/validation.js                                                *)
(***************************************************************************)
Letters ==
  {"a", "b", "c", "d", "e", "f", "g", "h", "i", "j", "k", "l", "m",
   "n", "o", "p", "q", "r", "s", "t", "u", "v", "w", "x", "y", "z",
   "A", "B", "C", "D", "E", "F", "G", "H", "I", "J", "K", "L", "M",
   "N", "O", "P", "Q", "R", "S", "T", "U", "V", "W", "X", "Y", "Z"}
Digits == {"0", "1", "2", "3", "4", "5", "6", "7", "8", "9"}

\* The character class [a-zA-Z0-9-_] of the key pattern.
KeyClass == Letters \cup Digits \cup {"-", "_"}

\* The least number of class characters after the prefix: {20,}.
MinKeyTail == 20

\* The message length cap.
MaxMessageLength == 4000

\* The pattern without its end anchor: /^sk-[a-zA-Z0-9-_]{20,}/.test(key)
KeyPatternTest_Unanchored(runs) ==
  LET c == Chars(runs) IN
    /\ Len(c) >= 3 + MinKeyTail
    /\ c[1] = "s" /\ c[2] = "k" /\ c[3] = "-"
    /\ \A i \in 4..(3 + MinKeyTail) : c[i] \in KeyClass

\* /^sk-[a-zA-Z0-9-_]{20,}$/.test(key)
KeyPatternTest(runs) ==
  LET c == Chars(runs) IN
    /\ Len(c) >= 3 + MinKeyTail
    /\ c[1] = "s" /\ c[2] = "k" /\ c[3] = "-"
    /\ \A i \in 4..Len(c) : c[i] \in KeyClass

isValidApiKey(key) == key.t = "string" /\ KeyPatternTest(key.s)

\* The two identifiers validateChatRequest accepts.
SupportedModels == {"gpt-3.5-turbo", "gpt-4"}

\* ['gpt-3.5-turbo', 'gpt-4'].includes(model): strict equality with a literal.
IncludesModel(model) == model.t = "string" /\ Text(model) \in SupportedModels

\* .replace(/</g, '&lt;').replace(/>/g, '&gt;')
EscapeUnit(u) == IF u = "<" THEN "&lt;" ELSE IF u = ">" THEN "&gt;" ELSE u
Escape(runs) == [i \in 1..Len(runs) |-> Run(EscapeUnit(runs[i].u), runs[i].k)]

\* Units String.prototype.trim strips.
WhiteSpace == {" "}

RECURSIVE TrimLeft(_)
TrimLeft(runs) ==
  IF runs # <<>> /\ Head(runs).u \in WhiteSpace THEN TrimLeft(Tail(runs)) ELSE runs

RECURSIVE TrimRight(_)
TrimRight(runs) ==
  IF runs # <<>> /\ runs[Len(runs)].u \in WhiteSpace
  THEN TrimRight(SubSeq(runs, 1, Len(runs) - 1))
  ELSE runs

Trim(runs) == TrimRight(TrimLeft(runs))

\* A sanitizer that trims and leaves the angle brackets in.
Sanitize_OnlyTrims(runs) == Trim(runs)

\* The message validateChatRequest writes back to req.body.
Sanitize(runs) == Trim(Escape(runs))

ErrMessageRequired == "Message is required and must be a string"
ErrMessageTooLong == "Message is too long (max 4000 characters)"
ErrInvalidModel == "Invalid model selected"
ErrInvalidKey == "Invalid API key format"

\* validateChatRequest without the API key check.
ChatRejection_NoKeyCheck(body) ==
  IF ~Truthy(body.message) \/ body.message.t # "string" THEN ErrMessageRequired
  ELSE IF StrLen(body.message.s) > MaxMessageLength THEN ErrMessageTooLong
  ELSE IF ~Truthy(body.model) \/ ~IncludesModel(body.model) THEN ErrInvalidModel
  ELSE ""

\* validateChatRequest without the length check.
ChatRejection_NoLengthCheck(body) ==
  IF ~Truthy(body.message) \/ body.message.t # "string" THEN ErrMessageRequired
  ELSE IF ~Truthy(body.model) \/ ~IncludesModel(body.model) THEN ErrInvalidModel
  ELSE IF ~Truthy(body.demoMode) /\ (~Truthy(body.apiKey) \/ ~isValidApiKey(body.apiKey))
       THEN ErrInvalidKey
  ELSE ""

\* validateChatRequest that only asks for some model, not for a supported one.
ChatRejection_AnyModel(body) ==
  IF ~Truthy(body.message) \/ body.message.t # "string" THEN ErrMessageRequired
  ELSE IF StrLen(body.message.s) > MaxMessageLength THEN ErrMessageTooLong
  ELSE IF ~Truthy(body.model) THEN ErrInvalidModel
  ELSE IF ~Truthy(body.demoMode) /\ (~Truthy(body.apiKey) \/ ~isValidApiKey(body.apiKey))
       THEN ErrInvalidKey
  ELSE ""

\* validateChatRequest that checks the message's type but not that it is non-empty.
ChatRejection_TypeofOnly(body) ==
  IF body.message.t # "string" THEN ErrMessageRequired
  ELSE IF StrLen(body.message.s) > MaxMessageLength THEN ErrMessageTooLong
  ELSE IF ~Truthy(body.model) \/ ~IncludesModel(body.model) THEN ErrInvalidModel
  ELSE IF ~Truthy(body.demoMode) /\ (~Truthy(body.apiKey) \/ ~isValidApiKey(body.apiKey))
       THEN ErrInvalidKey
  ELSE ""

\* The check that fails first, "" when validateChatRequest calls next().
ChatRejection(body) ==
  IF ~Truthy(body.message) \/ body.message.t # "string" THEN ErrMessageRequired
  ELSE IF StrLen(body.message.s) > MaxMessageLength THEN ErrMessageTooLong
  ELSE IF ~Truthy(body.model) \/ ~IncludesModel(body.model) THEN ErrInvalidModel
  ELSE IF ~Truthy(body.demoMode) /\ (~Truthy(body.apiKey) \/ ~isValidApiKey(body.apiKey))
       THEN ErrInvalidKey
  ELSE ""

\* A key check that asks only for a key to be present.
KeyRejection_PresenceOnly(body) ==
  IF ~Truthy(body.apiKey) THEN ErrInvalidKey ELSE ""

\* The check of validateKeyRequest, "" when it calls next().
KeyRejection(body) ==
  IF ~Truthy(body.apiKey) \/ ~isValidApiKey(body.apiKey) THEN ErrInvalidKey ELSE ""


(***************************************************************************)
(* utils/openai.js                                                         *)
(***************************************************************************)
\* What arithmetic on undefined yields.  Costs are never negative, so -1 is free.
NaN == -1
Times(a, b) == IF a = NaN \/ b = NaN THEN NaN ELSE a * b
Plus(a, b) == IF a = NaN \/ b = NaN THEN NaN ELSE a + b

\* Keys every object literal inherits from Object.prototype: looked up with
\* obj[key] they give a function, which is truthy and has no input or output.
ObjectPrototypeKeys == {"constructor", "toString", "valueOf", "hasOwnProperty"}

\* PRICING[model], per 1K tokens, in units of $0.0001; known is its truthiness.
PRICING(model) ==
  CASE model = "gpt-3.5-turbo" -> [known |-> TRUE, input |-> 15, output |-> 20]
    [] model = "gpt-4" -> [known |-> TRUE, input |-> 300, output |-> 600]
    [] model \in ObjectPrototypeKeys -> [known |-> TRUE, input |-> NaN, output |-> NaN]
    [] OTHER -> [known |-> FALSE, input |-> 0, output |-> 0]

\* An estimator that prices every token at the output rate.
calculateCost_OutputRateOnly(model, promptTokens, completionTokens) ==
  LET modelPricing == PRICING(model) IN
    IF ~modelPricing.known THEN 0
    ELSE Plus(Times(promptTokens, modelPricing.output),
              Times(completionTokens, modelPricing.output))

\* calculateCost, in units of $0.0000001 (a token is 1/1000 of the 1K price).
calculateCost(model, promptTokens, completionTokens) ==
  LET modelPricing == PRICING(model) IN
    IF ~modelPricing.known THEN 0
    ELSE Plus(Times(promptTokens, modelPricing.input),
              Times(completionTokens, modelPricing.output))

None == "undefined"
NoUsage == [promptTokens |-> 0, completionTokens |-> 0, totalTokens |-> 0, cost |-> 0]

\* What the provider does with one chat.completions.create call: it resolves with
\* a completion, resolves with a body that has usage but no choices, or rejects;
\* a rejection carries error.response.data.error.message or no response at all.
Pending ==
  [kind |-> "pending", content |-> None, prompt |-> 0, completion |-> 0,
   total |-> 0, message |-> None, responseMessage |-> None]

ProviderOutcomes ==
  { [kind |-> "completion", content |-> "provider text", prompt |-> 10,
     completion |-> 20, total |-> 30, message |-> None, responseMessage |-> None],
    [kind |-> "malformed", content |-> None, prompt |-> 10,
     completion |-> 0, total |-> 10,
     message |-> "Cannot read properties of undefined (reading 'message')",
     responseMessage |-> None],
    [kind |-> "invalid_key", content |-> None, prompt |-> 0,
     completion |-> 0, total |-> 0,
     message |-> "401 status code", responseMessage |-> "Incorrect API key provided"],
    [kind |-> "rate_limit", content |-> None, prompt |-> 0,
     completion |-> 0, total |-> 0,
     message |-> "429 status code", responseMessage |-> "Rate limit reached"],
    [kind |-> "network", content |-> None, prompt |-> 0,
     completion |-> 0, total |-> 0,
     message |-> "Connection error", responseMessage |-> None] }

\* openai.models.list() resolves with the model list or rejects.
ListOutcomes ==
  { [kind |-> "listed", content |-> None, prompt |-> 0, completion |-> 0,
     total |-> 0, message |-> None, responseMessage |-> None] }
  \cup { o \in ProviderOutcomes : o.kind \in {"invalid_key", "network"} }

\* A key check that lets the rejection of models.list() escape.
validateApiKey_Rethrows(outcome) ==
  IF outcome.kind = "listed"
  THEN [threw |-> FALSE, message |-> None, value |-> TRUE]
  ELSE [threw |-> TRUE, message |-> outcome.message, value |-> FALSE]

\* validateApiKey after the await: true, or false from its catch block.
validateApiKey(outcome) ==
  IF outcome.kind = "listed"
  THEN [threw |-> FALSE, message |-> None, value |-> TRUE]
  ELSE [threw |-> FALSE, message |-> None, value |-> FALSE]

ErrOpenAIFallback == "Failed to get response from OpenAI"

\* A completion whose cost is reckoned from the total instead of the prompt.
getChatCompletion_CostFromTotal(model, outcome) ==
  IF outcome.kind = "completion"
  THEN [threw |-> FALSE, message |-> None, content |-> outcome.content,
        usage |-> [promptTokens |-> outcome.prompt,
                   completionTokens |-> outcome.completion,
                   totalTokens |-> outcome.total,
                   cost |-> calculateCost(model, outcome.total, outcome.completion)]]
  ELSE [threw |-> TRUE,
        message |-> IF outcome.responseMessage # None
                    THEN outcome.responseMessage ELSE ErrOpenAIFallback,
        content |-> None, usage |-> NoUsage]

\* getChatCompletion after the await: the value it returns or the Error it throws.
getChatCompletion(model, outcome) ==
  IF outcome.kind = "completion"
  THEN [threw |-> FALSE, message |-> None, content |-> outcome.content,
        usage |-> [promptTokens |-> outcome.prompt,
                   completionTokens |-> outcome.completion,
                   totalTokens |-> outcome.total,
                   cost |-> calculateCost(model, outcome.prompt, outcome.completion)]]
  ELSE [threw |-> TRUE,
        message |-> IF outcome.responseMessage # None
                    THEN outcome.responseMessage ELSE ErrOpenAIFallback,
        content |-> None, usage |-> NoUsage]

\* A demo responder that answers from the message text, not from the model.
getDemoResponse_ByMessage(message, model) ==
  IF message.t = "string" /\ Len(message.s) > 0 /\ message.s[1].u = "Hi"
  THEN "That's an interesting question! Let me explain..."
  ELSE "This is a demo response. In the full version, this would be a response from gpt-3.5-turbo."

\* getDemoResponse after the delay.
getDemoResponse(message, model) ==
  IF model = "gpt-4"
  THEN "This is a demo response. In the full version, this would be a response from gpt-4."
  ELSE "This is a demo response. In the full version, this would be a response from gpt-3.5-turbo."


(***************************************************************************)
(* Request bodies the clients send.                                        *)
(***************************************************************************)
KeyA == Str(<<Run("sk-", 1), Run("a", 20)>>)
KeyB == Str(<<Run("sk-", 1), Run("b", 24)>>)

Messages ==
  { Undefined, Num(42), Str(<<>>), Lit("Hi"),
    Str(<<Run(" ", 2)>>),
    Str(<<Run("<", MaxMessageLength)>>),
    Str(<<Run("a", MaxMessageLength + 1)>>) }
Models == { Undefined, Lit("gpt-3.5-turbo"), Lit("gpt-4"), Lit("invalid-model") }
ApiKeys == { Undefined, Lit("not-a-key"), KeyA, KeyB }
DemoModes == { Undefined, Bool(TRUE), Bool(FALSE) }

ChatBodies ==
  [message : Messages, model : Models, apiKey : ApiKeys, demoMode : DemoModes]
KeyBodies ==
  [message : {Undefined}, model : {Undefined}, apiKey : ApiKeys, demoMode : {Undefined}]
NoBody ==
  [message |-> Undefined, model |-> Undefined, apiKey |-> Undefined, demoMode |-> Undefined]

Environments == {"development", "production"}

(***************************************************************************)
(* State.                                                                  *)
(***************************************************************************)
VARIABLES
  env,    \* process.env.NODE_ENV
  pc,     \* where each request is in the middleware chain
  req,    \* the request as received: route and body
  body,   \* req.body, which the validator rewrites
  call,   \* the provider call the request issued, with its client's key and,
          \* once it has settled, what the provider answered
  res,    \* the HTTP response written for the request
  log,    \* what the request did, in order
  hits,   \* the rate limiter's store: requests counted per IP in this window
  estimate,  \* one application of calculateCost: its arguments and its result
  keyCheck,  \* one application of isValidApiKey: its argument and its result
  hook,   \* the state of the client's useChat hook
  send,   \* the client's sendMessage calls that are waiting, each with the
          \* values its closure captured
  keyPosts  \* the client's validateKeyWithBackend calls that are waiting

serverVars == <<env, pc, req, body, call, res, log, hits>>
clientVars == <<hook, send, keyPosts>>
unitVars == <<estimate, keyCheck>>
vars == <<serverVars, unitVars, clientVars>>

NoRequest == [route |-> "none", body |-> NoBody, ip |-> ""]
NoCall ==
  [op |-> "none", apiKey |-> Undefined, message |-> <<>>, model |-> "",
   outcome |-> Pending]
NoResponse ==
  [status |-> 0, error |-> None, details |-> None, content |-> None,
   hasUsage |-> FALSE, usage |-> NoUsage, hasValid |-> FALSE, valid |-> FALSE,
   models |-> <<>>, text |-> None]

\* The addresses requests come from.
IPs == {"10.0.0.1", "10.0.0.2"}

\* max: 100 of the limiter.
RateLimitMax == 100

ErrTooMany == "Too many requests from this IP, please try again later."

\* The list GET /models answers with.
ModelList ==
  << [id |-> "gpt-3.5-turbo", name |-> "GPT-3.5 Turbo"],
     [id |-> "gpt-4", name |-> "GPT-4"] >>

NoEstimate ==
  [model |-> "", promptTokens |-> 0, completionTokens |-> 0, applied |-> FALSE,
   cost |-> 0]

NoKeyCheck == [key |-> Undefined, applied |-> FALSE, result |-> FALSE]

Null == "null"

\* useState([]), useState(false), useState(null), useState(''),
\* useState('gpt-3.5-turbo'), useState(false)
InitialHook ==
  [messages |-> <<>>, isLoading |-> FALSE, error |-> Null, apiKey |-> Str(<<>>),
   model |-> "gpt-3.5-turbo", demoMode |-> FALSE]

\* The sendMessage calls followed at a time.
MaxSends == 2
SendSlots == 1..MaxSends

NoSend ==
  [at |-> "none", content |-> <<>>, model |-> "", apiKey |-> Str(<<>>)]

Init ==
  /\ env \in Environments
  /\ pc = [r \in Requests |-> "idle"]
  /\ req = [r \in Requests |-> NoRequest]
  /\ body = [r \in Requests |-> NoBody]
  /\ call = [r \in Requests |-> NoCall]
  /\ res = [r \in Requests |-> NoResponse]
  /\ log = [r \in Requests |-> <<>>]
  /\ hits = [ip \in IPs |-> 0]
  /\ estimate = NoEstimate
  /\ keyCheck = NoKeyCheck
  /\ hook = InitialHook
  /\ send = [i \in SendSlots |-> NoSend]
  /\ keyPosts = 0

\* res.status(400).json({ error })
BadRequest(error) == [NoResponse EXCEPT !.status = 400, !.error = error]

\* A catch block that reports the thrown message as the error itself.
ServerError_ErrorIsMessage(error, message) ==
  [NoResponse EXCEPT !.status = 500, !.error = message,
     !.details = IF env = "development" THEN message ELSE None]

\* res.status(500).json({ error, details }) of the route's catch block
ServerError(error, message) ==
  [NoResponse EXCEPT !.status = 500, !.error = error,
     !.details = IF env = "development" THEN message ELSE None]

\* What express.json() passes to next(err) for a body that is not JSON.
JsonErrors ==
  { [status |-> 400, message |-> "Unexpected token } in JSON at position 1"] }

ErrUnexpected == "An unexpected error occurred"

\* An error handler that sends the exception's message in every environment.
errorHandler_AlwaysMessage(err) ==
  [NoResponse EXCEPT !.status = IF err.status # 0 THEN err.status ELSE 500,
     !.error = err.message]

\* The global error handling middleware: res.status(err.status || 500).json(...)
errorHandler(err) ==
  [NoResponse EXCEPT !.status = IF err.status # 0 THEN err.status ELSE 500,
     !.error = IF env = "production" THEN ErrUnexpected ELSE err.message]

\* A limiter that counts every request under one key, whatever its address.
Receive_OneCounter(r, route, ip) ==
  /\ pc[r] = "idle"
  /\ req' = [req EXCEPT ![r].route = route, ![r].ip = ip]
  /\ hits' = [a \in IPs |-> hits[a] + 1]
  /\ IF hits'[ip] > RateLimitMax
     THEN /\ res' = [res EXCEPT ![r] =
                [NoResponse EXCEPT !.status = 429, !.text = ErrTooMany]]
          /\ log' = [log EXCEPT ![r] = <<"res.status(429).send">>]
          /\ pc' = [pc EXCEPT ![r] = "limited"]
     ELSE /\ log' = [log EXCEPT ![r] = <<"received">>]
          /\ pc' = [pc EXCEPT ![r] = "received"]
          /\ UNCHANGED res
  /\ UNCHANGED <<clientVars, unitVars, env, body, call>>

\* A request from address ip reaches the server.  The limiter counts it and
\* answers 429 when the address is over its ceiling for this window; otherwise
\* the request goes on to express.json(), which has yet to read its body.
Receive(r, route, ip) ==
  /\ pc[r] = "idle"
  /\ req' = [req EXCEPT ![r].route = route, ![r].ip = ip]
  /\ hits' = [hits EXCEPT ![ip] = @ + 1]
  /\ IF hits'[ip] > RateLimitMax
     THEN /\ res' = [res EXCEPT ![r] =
                [NoResponse EXCEPT !.status = 429, !.text = ErrTooMany]]
          /\ log' = [log EXCEPT ![r] = <<"res.status(429).send">>]
          /\ pc' = [pc EXCEPT ![r] = "limited"]
     ELSE /\ log' = [log EXCEPT ![r] = <<"received">>]
          /\ pc' = [pc EXCEPT ![r] = "received"]
          /\ UNCHANGED res
  /\ UNCHANGED <<clientVars, unitVars, env, body, call>>

\* windowMs has passed: the limiter's store forgets its counts.
WindowEnds ==
  /\ hits' = [ip \in IPs |-> 0]
  /\ UNCHANGED <<clientVars, unitVars, env, pc, req, body, call, res, log>>

\* express.json() cannot parse the body of a POST: it calls next(err), the
\* routes are skipped and the global error handler answers.
BodyParseFails(r, err) ==
  /\ pc[r] = "received"
  /\ req[r].route \in {"POST /chat", "POST /validate-key"}
  /\ res' = [res EXCEPT ![r] = errorHandler(err)]
  /\ log' = [log EXCEPT ![r] = @ \o <<"next(err)", "res.status(400).json">>]
  /\ pc' = [pc EXCEPT ![r] = "errored"]
  /\ UNCHANGED <<clientVars, unitVars, hits, env, req, body, call>>

\* validateChatRequest whose key check answers 400 without returning: the
\* middleware falls through to the sanitizer and to next().
validateChatRequest_KeyCheckFallsThrough(r, b) ==
  /\ pc[r] = "received"
  /\ req[r].route = "POST /chat"
  /\ req' = [req EXCEPT ![r].body = b]
  /\ LET error == ChatRejection(b) IN
       IF error = ErrInvalidKey
       THEN /\ res' = [res EXCEPT ![r] = BadRequest(error)]
            /\ body' = [body EXCEPT ![r] = [b EXCEPT !.message = Str(Sanitize(b.message.s))]]
            /\ log' = [log EXCEPT ![r] = @ \o <<"res.status(400).json", "next">>]
            /\ pc' = [pc EXCEPT ![r] = "validated"]
       ELSE IF error # ""
       THEN /\ res' = [res EXCEPT ![r] = BadRequest(error)]
            /\ log' = [log EXCEPT ![r] = Append(@, "res.status(400).json")]
            /\ pc' = [pc EXCEPT ![r] = "errored"]
            /\ body' = [body EXCEPT ![r] = b]
       ELSE /\ body' = [body EXCEPT ![r] = [b EXCEPT !.message = Str(Sanitize(b.message.s))]]
            /\ log' = [log EXCEPT ![r] = Append(@, "next")]
            /\ pc' = [pc EXCEPT ![r] = "validated"]
            /\ UNCHANGED res
  /\ UNCHANGED <<clientVars, unitVars, hits, env, call>>

\* The body b is parsed and validateChatRequest(req, res, next) runs on it.
validateChatRequest(r, b) ==
  /\ pc[r] = "received"
  /\ req[r].route = "POST /chat"
  /\ req' = [req EXCEPT ![r].body = b]
  /\ LET error == ChatRejection(b) IN
       IF error # ""
       THEN /\ res' = [res EXCEPT ![r] = BadRequest(error)]
            /\ log' = [log EXCEPT ![r] = Append(@, "res.status(400).json")]
            /\ pc' = [pc EXCEPT ![r] = "errored"]
            /\ body' = [body EXCEPT ![r] = b]
       ELSE /\ body' = [body EXCEPT ![r] = [b EXCEPT !.message = Str(Sanitize(b.message.s))]]
            /\ log' = [log EXCEPT ![r] = Append(@, "next")]
            /\ pc' = [pc EXCEPT ![r] = "validated"]
            /\ UNCHANGED res
  /\ UNCHANGED <<clientVars, unitVars, hits, env, call>>

\* A handler that makes the provider client once and keeps it for later requests.
ChatHandler_CachedClient(r) ==
  /\ pc[r] = "validated"
  /\ req[r].route = "POST /chat"
  /\ IF Truthy(body[r].demoMode)
     THEN /\ log' = [log EXCEPT ![r] = Append(@, "setTimeout")]
          /\ pc' = [pc EXCEPT ![r] = "demo-path"]
          /\ UNCHANGED call
     ELSE /\ call' = [call EXCEPT ![r] =
                 [op |-> "chat.completions.create",
                  apiKey |-> IF \E q \in Requests : call[q].op # "none"
                             THEN call[CHOOSE q \in Requests : call[q].op # "none"].apiKey
                             ELSE body[r].apiKey,
                  message |-> body[r].message.s, model |-> Text(body[r].model),
                  outcome |-> Pending]]
          /\ log' = [log EXCEPT ![r] = Append(@, "chat.completions.create")]
          /\ pc' = [pc EXCEPT ![r] = "upstream-path"]
  /\ UNCHANGED <<clientVars, unitVars, hits, env, req, body, res>>

\* router.post('/chat') up to its first await: the demo delay, or the
\* completion call on a client made from the request's key.
ChatHandler(r) ==
  /\ pc[r] = "validated"
  /\ req[r].route = "POST /chat"
  /\ IF Truthy(body[r].demoMode)
     THEN /\ log' = [log EXCEPT ![r] = Append(@, "setTimeout")]
          /\ pc' = [pc EXCEPT ![r] = "demo-path"]
          /\ UNCHANGED call
     ELSE /\ call' = [call EXCEPT ![r] =
                 [op |-> "chat.completions.create", apiKey |-> body[r].apiKey,
                  message |-> body[r].message.s, model |-> Text(body[r].model),
                  outcome |-> Pending]]
          /\ log' = [log EXCEPT ![r] = Append(@, "chat.completions.create")]
          /\ pc' = [pc EXCEPT ![r] = "upstream-path"]
  /\ UNCHANGED <<clientVars, unitVars, hits, env, req, body, res>>

\* A demo responder that keeps the model name in a variable of the module,
\* where a later request overwrites it.
DemoResponds_SharedModel(r) ==
  /\ pc[r] = "demo-path"
  /\ LET last == CHOOSE q \in Requests :
                   /\ pc[q] = "demo-path"
                   /\ \A o \in Requests : pc[o] = "demo-path" => o <= q
     IN res' = [res EXCEPT ![r] =
          [NoResponse EXCEPT !.status = 200,
             !.content = getDemoResponse(body[last].message, Text(body[last].model)),
             !.hasUsage = TRUE, !.usage = NoUsage]]
  /\ log' = [log EXCEPT ![r] = Append(@, "res.json")]
  /\ pc' = [pc EXCEPT ![r] = "responded"]
  /\ UNCHANGED <<clientVars, unitVars, hits, env, req, body, call>>

\* The demo delay ends: getDemoResponse returns and the handler answers.
DemoResponds(r) ==
  /\ pc[r] = "demo-path"
  /\ res' = [res EXCEPT ![r] =
        [NoResponse EXCEPT !.status = 200,
           !.content = getDemoResponse(body[r].message, Text(body[r].model)),
           !.hasUsage = TRUE, !.usage = NoUsage]]
  /\ log' = [log EXCEPT ![r] = Append(@, "res.json")]
  /\ pc' = [pc EXCEPT ![r] = "responded"]
  /\ UNCHANGED <<clientVars, unitVars, hits, env, req, body, call>>

\* A handler that sends the usage it has received along with the error.
CompletionSettles_LeaksUsage(r, outcome) ==
  /\ pc[r] = "upstream-path"
  /\ LET result == getChatCompletion(Text(body[r].model), outcome) IN
       IF result.threw
       THEN /\ res' = [res EXCEPT ![r] =
                  [ServerError("Failed to process chat message", result.message)
                     EXCEPT !.hasUsage = TRUE,
                            !.usage = [NoUsage EXCEPT !.promptTokens = outcome.prompt,
                                                      !.totalTokens = outcome.total]]]
            /\ log' = [log EXCEPT ![r] = Append(@, "res.status(500).json")]
            /\ pc' = [pc EXCEPT ![r] = "errored"]
       ELSE /\ res' = [res EXCEPT ![r] =
                  [NoResponse EXCEPT !.status = 200, !.content = result.content,
                     !.hasUsage = TRUE, !.usage = result.usage]]
            /\ log' = [log EXCEPT ![r] = Append(@, "res.json")]
            /\ pc' = [pc EXCEPT ![r] = "responded"]
  /\ call' = [call EXCEPT ![r].outcome = outcome]
  /\ UNCHANGED <<clientVars, unitVars, hits, env, req, body>>

\* A handler that issues the completion call a second time when the first fails.
CompletionSettles_Retry(r, outcome) ==
  /\ pc[r] = "upstream-path"
  /\ LET result == getChatCompletion(Text(body[r].model), outcome) IN
       IF result.threw /\ Len(log[r]) < 4
       THEN /\ log' = [log EXCEPT ![r] = Append(@, "chat.completions.create")]
            /\ UNCHANGED <<pc, res>>
       ELSE IF result.threw
       THEN /\ res' = [res EXCEPT ![r] =
                  ServerError("Failed to process chat message", result.message)]
            /\ log' = [log EXCEPT ![r] = Append(@, "res.status(500).json")]
            /\ pc' = [pc EXCEPT ![r] = "errored"]
       ELSE /\ res' = [res EXCEPT ![r] =
                  [NoResponse EXCEPT !.status = 200, !.content = result.content,
                     !.hasUsage = TRUE, !.usage = result.usage]]
            /\ log' = [log EXCEPT ![r] = Append(@, "res.json")]
            /\ pc' = [pc EXCEPT ![r] = "responded"]
  /\ call' = [call EXCEPT ![r].outcome = outcome]
  /\ UNCHANGED <<clientVars, unitVars, hits, env, req, body>>

\* A handler whose catch block logs the error and sends nothing.
CompletionSettles_SwallowsError(r, outcome) ==
  /\ pc[r] = "upstream-path"
  /\ LET result == getChatCompletion(Text(body[r].model), outcome) IN
       IF result.threw
       THEN /\ pc' = [pc EXCEPT ![r] = "errored"]
            /\ UNCHANGED <<res, log>>
       ELSE /\ res' = [res EXCEPT ![r] =
                  [NoResponse EXCEPT !.status = 200, !.content = result.content,
                     !.hasUsage = TRUE, !.usage = result.usage]]
            /\ log' = [log EXCEPT ![r] = Append(@, "res.json")]
            /\ pc' = [pc EXCEPT ![r] = "responded"]
  /\ call' = [call EXCEPT ![r].outcome = outcome]
  /\ UNCHANGED <<clientVars, unitVars, hits, env, req, body>>

\* The completion call settles: getChatCompletion returns or throws, and the
\* handler answers 200 or, from its catch block, 500.
CompletionSettles(r, outcome) ==
  /\ pc[r] = "upstream-path"
  /\ LET result == getChatCompletion(Text(body[r].model), outcome) IN
       IF result.threw
       THEN /\ res' = [res EXCEPT ![r] =
                  ServerError("Failed to process chat message", result.message)]
            /\ log' = [log EXCEPT ![r] = Append(@, "res.status(500).json")]
            /\ pc' = [pc EXCEPT ![r] = "errored"]
       ELSE /\ res' = [res EXCEPT ![r] =
                  [NoResponse EXCEPT !.status = 200, !.content = result.content,
                     !.hasUsage = TRUE, !.usage = result.usage]]
            /\ log' = [log EXCEPT ![r] = Append(@, "res.json")]
            /\ pc' = [pc EXCEPT ![r] = "responded"]
  /\ call' = [call EXCEPT ![r].outcome = outcome]
  /\ UNCHANGED <<clientVars, unitVars, hits, env, req, body>>

\* A validator that accepts the key and then never calls next().
validateKeyRequest_ForgetsNext(r, b) ==
  /\ pc[r] = "received"
  /\ req[r].route = "POST /validate-key"
  /\ req' = [req EXCEPT ![r].body = b]
  /\ body' = [body EXCEPT ![r] = b]
  /\ LET error == KeyRejection(b) IN
       IF error # ""
       THEN /\ res' = [res EXCEPT ![r] = BadRequest(error)]
            /\ log' = [log EXCEPT ![r] = Append(@, "res.status(400).json")]
            /\ pc' = [pc EXCEPT ![r] = "errored"]
       ELSE /\ pc' = [pc EXCEPT ![r] = "validating"]
            /\ UNCHANGED <<res, log>>
  /\ UNCHANGED <<clientVars, unitVars, hits, env, call>>

\* The body b is parsed and validateKeyRequest(req, res, next) runs on it.
validateKeyRequest(r, b) ==
  /\ pc[r] = "received"
  /\ req[r].route = "POST /validate-key"
  /\ req' = [req EXCEPT ![r].body = b]
  /\ body' = [body EXCEPT ![r] = b]
  /\ LET error == KeyRejection(b) IN
       IF error # ""
       THEN /\ res' = [res EXCEPT ![r] = BadRequest(error)]
            /\ log' = [log EXCEPT ![r] = Append(@, "res.status(400).json")]
            /\ pc' = [pc EXCEPT ![r] = "errored"]
       ELSE /\ log' = [log EXCEPT ![r] = Append(@, "next")]
            /\ pc' = [pc EXCEPT ![r] = "validated"]
            /\ UNCHANGED res
  /\ UNCHANGED <<clientVars, unitVars, hits, env, call>>

\* router.post('/validate-key') up to the await in validateApiKey.
KeyHandler(r) ==
  /\ pc[r] = "validated"
  /\ req[r].route = "POST /validate-key"
  /\ call' = [call EXCEPT ![r] =
        [op |-> "models.list", apiKey |-> body[r].apiKey, message |-> <<>>, model |-> "",
         outcome |-> Pending]]
  /\ log' = [log EXCEPT ![r] = Append(@, "models.list")]
  /\ pc' = [pc EXCEPT ![r] = "key-check"]
  /\ UNCHANGED <<clientVars, unitVars, hits, env, req, body, res>>

\* models.list settles: validateApiKey returns and the handler answers
\* { valid }, or 500 from its catch block had validateApiKey thrown.
ListSettles(r, outcome) ==
  /\ pc[r] = "key-check"
  /\ LET isValid == validateApiKey(outcome) IN
       IF isValid.threw
       THEN /\ res' = [res EXCEPT ![r] =
                  ServerError("Failed to validate API key", isValid.message)]
            /\ log' = [log EXCEPT ![r] = Append(@, "res.status(500).json")]
            /\ pc' = [pc EXCEPT ![r] = "errored"]
       ELSE /\ res' = [res EXCEPT ![r] =
                  [NoResponse EXCEPT !.status = 200, !.hasValid = TRUE,
                     !.valid = isValid.value]]
            /\ log' = [log EXCEPT ![r] = Append(@, "res.json")]
            /\ pc' = [pc EXCEPT ![r] = "responded"]
  /\ call' = [call EXCEPT ![r].outcome = outcome]
  /\ UNCHANGED <<clientVars, unitVars, hits, env, req, body>>

\* A handler that stops offering gpt-4 once a request has failed.
ModelsHandler_AfterFailure(r) ==
  /\ pc[r] = "received"
  /\ req[r].route = "GET /models"
  /\ res' = [res EXCEPT ![r] =
        [NoResponse EXCEPT !.status = 200,
           !.models = IF \E q \in Requests : pc[q] = "errored"
                      THEN SubSeq(ModelList, 1, 1) ELSE ModelList]]
  /\ log' = [log EXCEPT ![r] = Append(@, "res.json")]
  /\ pc' = [pc EXCEPT ![r] = "responded"]
  /\ UNCHANGED <<clientVars, unitVars, hits, env, req, body, call>>

\* router.get('/models'): the handler answers the two supported models at once.
ModelsHandler(r) ==
  /\ pc[r] = "received"
  /\ req[r].route = "GET /models"
  /\ res' = [res EXCEPT ![r] =
        [NoResponse EXCEPT !.status = 200, !.models = ModelList]]
  /\ log' = [log EXCEPT ![r] = Append(@, "res.json")]
  /\ pc' = [pc EXCEPT ![r] = "responded"]
  /\ UNCHANGED <<clientVars, unitVars, hits, env, req, body, call>>

\* The address of the requests where the limiter is not the subject: one
\* client, far below the ceiling.
QuietIPs == {"10.0.0.1"}

Next ==
  \E r \in Requests :
    \/ \E ip \in QuietIPs : Receive(r, "POST /chat", ip)
    \/ \E ip \in QuietIPs : Receive(r, "POST /validate-key", ip)
    \/ \E ip \in QuietIPs : Receive(r, "GET /models", ip)
    \/ \E b \in ChatBodies : validateChatRequest(r, b)
    \/ ChatHandler(r)
    \/ DemoResponds(r)
    \/ \E outcome \in ProviderOutcomes : CompletionSettles(r, outcome)
    \/ \E b \in KeyBodies : validateKeyRequest(r, b)
    \/ KeyHandler(r)
    \/ \E outcome \in ListOutcomes : ListSettles(r, outcome)
    \/ ModelsHandler(r)
    \/ \E err \in JsonErrors : BodyParseFails(r, err)

Spec == Init /\ [][Next]_vars


(***************************************************************************)
(* Properties.                                                             *)
(***************************************************************************)
\* How often event e occurs in a request's log.
Count(seq, e) == Cardinality({i \in DOMAIN seq : seq[i] = e})

ProviderCalls == {"chat.completions.create", "models.list"}
DemoDelay == "setTimeout"

\* The request's body has been parsed and its validator has run.
Validated(r) == pc[r] \notin {"idle", "received"} /\ Count(log[r], "next(err)") = 0
IsChat(r) == req[r].route = "POST /chat"

\* C1: within one POST /chat or POST /validate-key request no provider call
\* (completion or model listing) and no demo delay starts before the validator
\* has accepted the request by calling next(), and a request the validator
\* answered with 400 never starts a provider call or a demo delay.
C1_ValidationPrecedesNetwork ==
  \A r \in Requests :
    /\ \A i \in DOMAIN log[r] :
         log[r][i] \in ProviderCalls \cup {DemoDelay}
           => \E j \in 1..(i - 1) : log[r][j] = "next"
    /\ call[r].op # "none" => Count(log[r], "next") = 1
    /\ Count(log[r], "res.status(400).json") > 0
         => /\ call[r] = NoCall
            /\ \A i \in DOMAIN log[r] : log[r][i] \notin ProviderCalls \cup {DemoDelay}

\* One request has issued its provider call while another was rejected.
C1_Witness ==
  \E r1, r2 \in Requests :
    /\ call[r1].op \in ProviderCalls
    /\ log[r2] = <<"received", "res.status(400).json">>

\* The canned demo text for a model name.
DemoTemplate(name) ==
  "This is a demo response. In the full version, this would be a response from "
    \o name \o "."

NothingStarted(r) ==
  /\ call[r] = NoCall
  /\ \A i \in DOMAIN log[r] : log[r][i] \notin ProviderCalls \cup {DemoDelay}

\* The request was answered 400 by its validator.
Answered400(r) == pc[r] = "errored" /\ res[r].status = 400 /\ res[r].error # None

\* A chat request whose demoMode is falsy and whose key is absent or malformed.
NeedsKeyAndLacksIt(r) ==
  /\ IsChat(r) /\ Validated(r)
  /\ ~Truthy(req[r].body.demoMode)
  /\ ~isValidApiKey(req[r].body.apiKey)

MessageAcceptable(m) == m.t = "string" /\ StrLen(m.s) > 0 /\ StrLen(m.s) <= MaxMessageLength
ModelSupported(m) == m.t = "string" /\ Text(m) \in SupportedModels

\* C3 as stated: every chat request with a falsy demoMode and an absent or
\* malformed key is answered 400 with the error that names the API key, and no
\* provider call is made.
C3_Original ==
  \A r \in Requests :
    NeedsKeyAndLacksIt(r)
      => Answered400(r) /\ res[r].error = ErrInvalidKey /\ NothingStarted(r)

\* C3: every chat request with a falsy demoMode and an absent or malformed key
\* is answered 400 with nothing started; the error names the API key when the
\* message and the model pass their own checks (an earlier failing field is
\* named otherwise); and every completion call carries a well-formed key.
C3_KeyRequiredUnlessDemo ==
  \A r \in Requests :
    /\ NeedsKeyAndLacksIt(r)
         => /\ Answered400(r)
            /\ NothingStarted(r)
            /\ MessageAcceptable(req[r].body.message) /\ ModelSupported(req[r].body.model)
                 => res[r].error = ErrInvalidKey
    /\ call[r].op = "chat.completions.create" => isValidApiKey(call[r].apiKey)

\* Scenario C answered, and a completion call issued for another request.
C3_Witness ==
  \E r1, r2 \in Requests :
    /\ NeedsKeyAndLacksIt(r1)
    /\ req[r1].body.message = Lit("Hi")
    /\ req[r1].body.apiKey = Undefined
    /\ req[r1].body.demoMode = Bool(FALSE)
    /\ res[r1].error = ErrInvalidKey
    /\ call[r2].op = "chat.completions.create"

\* C4: every chat request whose message is longer than 4000 characters is
\* answered 400 and starts no provider call and no demo delay, whatever its
\* model, key and demoMode are.
C4_LongMessageRejected ==
  \A r \in Requests :
    /\ IsChat(r) /\ Validated(r)
    /\ req[r].body.message.t = "string"
    /\ StrLen(req[r].body.message.s) > MaxMessageLength
    => Answered400(r) /\ NothingStarted(r)

\* A 4001-character message with a supported model, a good key and demo mode on.
C4_Witness ==
  \E r \in Requests :
    /\ IsChat(r) /\ Validated(r)
    /\ StrLen(req[r].body.message.s) = MaxMessageLength + 1
    /\ ModelSupported(req[r].body.model)
    /\ req[r].body.apiKey = KeyA
    /\ Truthy(req[r].body.demoMode)
    /\ res[r].status = 400

\* C5: every chat request whose model is absent or not one of gpt-3.5-turbo
\* and gpt-4 is answered 400 whatever its other fields are, and starts neither
\* the demo responder nor a provider call.
C5_UnsupportedModelRejected ==
  \A r \in Requests :
    IsChat(r) /\ Validated(r) /\ ~ModelSupported(req[r].body.model)
      => Answered400(r) /\ NothingStarted(r)

\* An unsupported model name with an acceptable message in demo mode, rejected.
C5_Witness ==
  \E r \in Requests :
    /\ IsChat(r) /\ Validated(r)
    /\ req[r].body.model = Lit("invalid-model")
    /\ MessageAcceptable(req[r].body.message)
    /\ Truthy(req[r].body.demoMode)
    /\ res[r].error = ErrInvalidModel

\* C6: every chat request whose message is absent, not a string or the empty
\* string is answered 400 with the error that states the message requirement,
\* also in demo mode, and starts neither the demo responder nor a provider call.
C6_MissingMessageRejected ==
  \A r \in Requests :
    /\ IsChat(r) /\ Validated(r)
    /\ req[r].body.message.t # "string" \/ StrLen(req[r].body.message.s) = 0
    => Answered400(r) /\ res[r].error = ErrMessageRequired /\ NothingStarted(r)

\* Scenario B: the empty message with a supported model in demo mode, rejected.
C6_Witness ==
  \E r \in Requests :
    /\ IsChat(r) /\ Validated(r)
    /\ req[r].body.message = Str(<<>>)
    /\ ModelSupported(req[r].body.model)
    /\ req[r].body.demoMode = Bool(TRUE)
    /\ res[r].status = 400


\* The completion call of a chat request has failed.
UpstreamFailed(r) ==
  IsChat(r) /\ pc[r] = "errored" /\ call[r].op = "chat.completions.create"

ErrChatFailed == "Failed to process chat message"

C9_NoRetry ==
  \A r \in Requests : Count(log[r], "chat.completions.create") <= 1

\* A completion call failed and the request was answered.
C9_Witness ==
  \E r \in Requests :
    /\ UpstreamFailed(r)
    /\ Count(log[r], "chat.completions.create") = 1
    /\ res[r].status = 500

\* The HTTP responses written for a request.
Responses(r) ==
  Count(log[r], "res.json") + Count(log[r], "res.status(400).json")
    + Count(log[r], "res.status(500).json")

Terminal == {"responded", "errored"}

\* The steps of the per-request state machine.
Forward ==
  { <<"idle", "received">>,
    <<"received", "validated">>, <<"received", "errored">>,
    <<"received", "responded">>,
    <<"validated", "demo-path">>, <<"validated", "upstream-path">>,
    <<"validated", "key-check">>,
    <<"demo-path", "responded">>, <<"demo-path", "errored">>,
    <<"upstream-path", "responded">>, <<"upstream-path", "errored">>,
    <<"key-check", "responded">>, <<"key-check", "errored">> }

C10_OneResponse ==
  \A r \in Requests :
    /\ pc[r] \in Terminal => Responses(r) = 1
    /\ pc[r] \notin Terminal => Responses(r) = 0 /\ res[r] = NoResponse
    /\ pc[r] = "errored" => res[r].status \in {400, 500} /\ res[r].error # None
    /\ pc[r] = "responded" => res[r].status = 200 /\ res[r].error = None

C10_ForwardStep ==
  \A r \in Requests :
    IF pc'[r] # pc[r]
    THEN <<pc[r], pc'[r]>> \in Forward
    ELSE log'[r] = log[r] /\ res'[r] = res[r] /\ call'[r] = call[r]

\* C10: a request only moves forward through received, validated, demo or
\* upstream path, and a terminal; nothing happens to it without such a step (no
\* retry), no step leaves a terminal, an errored request carries an error
\* response, and exactly one HTTP response has been written once it is in a
\* terminal and none before.
C10_NoRetryOneResponse == [](C10_OneResponse) /\ [][C10_ForwardStep]_vars

\* One request answered 200 and another ended in a 500 after its call failed.
C10_Witness ==
  \E r1, r2 \in Requests :
    /\ pc[r1] = "responded" /\ res[r1].status = 200
    /\ UpstreamFailed(r2) /\ Responses(r2) = 1


(***************************************************************************)
(* Progress.  Node's event loop runs every callback that is ready, so each  *)
(* request's middleware and handler steps are taken once enabled; that the  *)
(* awaited provider call and the demo timer settle is the claim's           *)
(* assumption.  Nothing obliges a client to send a request.                 *)
(***************************************************************************)
\* The bodies of the progress check: one for each way through the validators.
LiveChatBodies ==
  [message : {Undefined, Lit("Hi")}, model : {Lit("gpt-4"), Lit("invalid-model")},
   apiKey : {Undefined, KeyA}, demoMode : {Bool(TRUE), Bool(FALSE)}]
LiveKeyBodies == { b \in KeyBodies : b.apiKey \in {Lit("not-a-key"), KeyA} }

\* The steps of request r after it has been received.
Step(r) ==
  \/ \E b \in LiveChatBodies : validateChatRequest(r, b)
  \/ ChatHandler(r)
  \/ DemoResponds(r)
  \/ \E outcome \in ProviderOutcomes : CompletionSettles(r, outcome)
  \/ \E b \in LiveKeyBodies : validateKeyRequest(r, b)
  \/ KeyHandler(r)
  \/ \E outcome \in ListOutcomes : ListSettles(r, outcome)
  \/ ModelsHandler(r)
  \/ \E err \in JsonErrors : BodyParseFails(r, err)

LiveNext ==
  \E r \in Requests :
    \/ \E ip \in QuietIPs : Receive(r, "POST /chat", ip)
    \/ \E ip \in QuietIPs : Receive(r, "POST /validate-key", ip)
    \/ \E ip \in QuietIPs : Receive(r, "GET /models", ip)
    \/ Step(r)

FairSpec == Init /\ [][LiveNext]_vars /\ \A r \in Requests : WF_vars(Step(r))

\* C11: once the provider call or the demo delay settles, every POST /chat and
\* POST /validate-key request that has been received is eventually answered,
\* with exactly one response, and ends in a terminal.
C11_EveryRequestAnswered ==
  \A r \in Requests :
    (pc[r] = "received") ~> (pc[r] \in Terminal /\ Responses(r) = 1 /\ res[r].status # 0)

\* A chat request and a key check, both answered after their provider calls.
C11_Witness ==
  \E r1, r2 \in Requests :
    /\ req[r1].route = "POST /chat" /\ call[r1].op = "chat.completions.create"
    /\ req[r2].route = "POST /validate-key" /\ call[r2].op = "models.list"
    /\ pc[r1] \in Terminal /\ pc[r2] \in Terminal


(***************************************************************************)
(* POST /validate-key.                                                     *)
(***************************************************************************)
IsKeyCheck(r) == req[r].route = "POST /validate-key"
WellFormedKey(r) == Truthy(req[r].body.apiKey) /\ isValidApiKey(req[r].body.apiKey)

C13_MalformedKeyRejected ==
  \A r \in Requests :
    (IsKeyCheck(r) /\ Validated(r) /\ ~WellFormedKey(r)) =>
      /\ Answered400(r)
      /\ ~res[r].hasValid
      /\ NothingStarted(r)

\* "not-a-key" and an absent key, both answered 400.
C13_Witness ==
  \E r1, r2 \in Requests :
    /\ IsKeyCheck(r1) /\ req[r1].body.apiKey = Lit("not-a-key") /\ res[r1].status = 400
    /\ IsKeyCheck(r2) /\ req[r2].body.apiKey = Undefined /\ res[r2].status = 400


CostModels == {"gpt-3.5-turbo", "gpt-4", "invalid-model", "constructor", "undefined"}
TokenCounts == {0, 1, 10, 50, 100}

CostInit ==
  /\ env \in Environments
  /\ pc = [r \in Requests |-> "idle"]
  /\ req = [r \in Requests |-> NoRequest]
  /\ body = [r \in Requests |-> NoBody]
  /\ call = [r \in Requests |-> NoCall]
  /\ res = [r \in Requests |-> NoResponse]
  /\ log = [r \in Requests |-> <<>>]
  /\ hits = [ip \in IPs |-> 0]
  /\ estimate \in [model : CostModels, promptTokens : TokenCounts,
                   completionTokens : TokenCounts, applied : {FALSE}, cost : {0}]
  /\ keyCheck = NoKeyCheck
  /\ hook = InitialHook
  /\ send = [i \in SendSlots |-> NoSend]
  /\ keyPosts = 0

\* calculateCost(model, promptTokens, completionTokens) is called and returns.
CallCalculateCost ==
  /\ ~estimate.applied
  /\ estimate' = [estimate EXCEPT !.applied = TRUE,
        !.cost = calculateCost(estimate.model, estimate.promptTokens,
                               estimate.completionTokens)]
  /\ UNCHANGED <<serverVars, clientVars, keyCheck>>

CostSpec == CostInit /\ [][CallCalculateCost]_vars

\* The models that have an entry of their own in the price table.
PriceTable == {"gpt-3.5-turbo", "gpt-4"}

\* C15: for a model absent from the price table calculateCost returns 0; for a
\* model in the table it returns promptTokens/1000 x inputPrice +
\* completionTokens/1000 x outputPrice, unrounded.
C15_ZeroOrFormula ==
  estimate.applied =>
    IF estimate.model \in PriceTable
    THEN estimate.cost =
           estimate.promptTokens * PRICING(estimate.model).input
             + estimate.completionTokens * PRICING(estimate.model).output
    ELSE estimate.cost = 0


(***************************************************************************)
(* The client: the useChat hook.                                           *)
(***************************************************************************)
\* The longest message list the client is followed to.
MaxMessages == 4

DEMO_COMPLETION_TOKENS == 50

\* DEMO_PRICING[model], per 1K tokens, in units of $0.0001.
DEMO_PRICING(model) ==
  CASE model = "gpt-3.5-turbo" -> [known |-> TRUE, input |-> 15, output |-> 20]
    [] model = "gpt-4" -> [known |-> TRUE, input |-> 300, output |-> 600]
    [] model \in ObjectPrototypeKeys -> [known |-> TRUE, input |-> NaN, output |-> NaN]
    [] OTHER -> [known |-> FALSE, input |-> 0, output |-> 0]

\* Math.max(1, Math.ceil(text.length / 4))
estimatePromptTokens(text) ==
  LET quarters == (StrLen(text) + 3) \div 4 IN IF quarters < 1 THEN 1 ELSE quarters

\* calculateDemoCost, in units of $0.0000001.
calculateDemoCost(model, promptTokens, completionTokens) ==
  LET pricing == IF DEMO_PRICING(model).known THEN DEMO_PRICING(model)
                 ELSE DEMO_PRICING("gpt-3.5-turbo") IN
    Plus(Times(promptTokens, pricing.input), Times(completionTokens, pricing.output))

\* +x.toFixed(6): x to the nearest $0.000001, which is 10 units.  A sum that is
\* halfway in decimal is not halfway as a double; which neighbour it is nearer
\* to depends on the double, so either may result.
ToFixed6(x, up) ==
  IF x = NaN THEN NaN
  ELSE LET r == x % 10 IN
         IF r < 5 THEN x - r
         ELSE IF r > 5 THEN x - r + 10
         ELSE IF up THEN x + 5 ELSE x - 5

\* /^sk-[a-zA-Z0-9-_]{20,}$/.test(key) of the hook
useChatValidateApiKey(key) == KeyPatternTest(key.s)

ErrClientKey == "Please enter a valid OpenAI API key"
ErrSendFallback == "Failed to send message"

UserMessage(content) ==
  [role |-> "user", content |-> content, hasUsage |-> FALSE, usage |-> NoUsage,
   demo |-> FALSE, isError |-> FALSE]
AssistantMessage(content, usage, demo) ==
  [role |-> "assistant", content |-> content, hasUsage |-> TRUE, usage |-> usage,
   demo |-> demo, isError |-> FALSE]
ErrorMessage(errorMessage) ==
  [role |-> "assistant", content |-> <<Run("Error: ", 1), Run(errorMessage, 1)>>,
   hasUsage |-> FALSE, usage |-> NoUsage, demo |-> FALSE, isError |-> TRUE]

\* `This is a demo response. In the full version, this would be a response from ${model}.`
DemoContent(model) ==
  << Run("This is a demo response. In the full version, this would be a response from ", 1),
     Run(model, 1), Run(".", 1) >>

\* What the user types, what the settings panel or a caller of the hook sets.
\* A caller sends while isLoading is false, as MessageInput does.
Contents == { <<Run(" ", 2)>>, <<Run("Hi", 1)>>, <<Run("a", 40), Run(" ", 1)>> }
ClientModels == {"gpt-3.5-turbo", "gpt-4", "invalid-model"}
ClientKeys == { Str(<<>>), Lit("not-a-key"), KeyA }

\* How axios.post(`${API_BASE_URL}/chat`) settles: the backend's answer, an
\* error response with data.error, an error without a response, a bare rejection.
PostOutcomes(model) ==
  { [kind |-> "ok", content |-> <<Run("provider text", 1)>>,
     usage |-> [promptTokens |-> 10, completionTokens |-> 20, totalTokens |-> 30,
                cost |-> calculateCost(model, 10, 20)],
     dataError |-> None, message |-> None],
    [kind |-> "error_response", content |-> <<>>, usage |-> NoUsage,
     dataError |-> "Failed to process chat message",
     message |-> "Request failed with status code 500"],
    [kind |-> "network", content |-> <<>>, usage |-> NoUsage,
     dataError |-> None, message |-> "Network Error"],
    [kind |-> "bare", content |-> <<>>, usage |-> NoUsage,
     dataError |-> None, message |-> None] }

setModel(m) ==
  /\ hook' = [hook EXCEPT !.model = m]
  /\ UNCHANGED <<serverVars, unitVars, send, keyPosts>>

setApiKey(k) ==
  /\ hook' = [hook EXCEPT !.apiKey = k]
  /\ UNCHANGED <<serverVars, unitVars, send, keyPosts>>

setDemoMode(on) ==
  /\ hook' = [hook EXCEPT !.demoMode = on]
  /\ UNCHANGED <<serverVars, unitVars, send, keyPosts>>

\* A toggleDemoMode that clears the key in both directions.
toggleDemoMode_AlwaysClearsKey ==
  /\ hook' = [hook EXCEPT !.demoMode = ~hook.demoMode,
                          !.apiKey = Str(<<>>),
                          !.error = Null]
  /\ UNCHANGED <<serverVars, unitVars, send, keyPosts>>

\* setDemoMode(prev => !prev); if (!demoMode) setApiKey(''); clearError()
toggleDemoMode ==
  /\ hook' = [hook EXCEPT !.demoMode = ~hook.demoMode,
                          !.apiKey = IF ~hook.demoMode THEN Str(<<>>) ELSE @,
                          !.error = Null]
  /\ UNCHANGED <<serverVars, unitVars, send, keyPosts>>

\* setError(null)
clearError ==
  /\ hook' = [hook EXCEPT !.error = Null]
  /\ UNCHANGED <<serverVars, unitVars, send, keyPosts>>

\* setMessages([]); clearError()
clearChat ==
  /\ hook' = [hook EXCEPT !.messages = <<>>, !.error = Null]
  /\ UNCHANGED <<serverVars, unitVars, send, keyPosts>>

\* The sendMessage calls that are waiting, and the slot the next one takes.
Waiting == Cardinality({i \in SendSlots : send[i].at # "none"})
FreeSlot == CHOOSE i \in SendSlots :
              /\ send[i].at = "none"
              /\ \A j \in SendSlots : send[j].at = "none" => i <= j

\* A sendMessage that checks the key before it looks at demo mode.
sendMessage_KeyBeforeDemo(content) ==
  /\ Len(hook.messages) + Waiting + 2 <= MaxMessages
  /\ LET text == Trim(content)
         started == [hook EXCEPT !.messages = Append(@, UserMessage(text)),
                                 !.isLoading = TRUE, !.error = Null]
         refused == [hook EXCEPT
                       !.messages = Append(Append(@, UserMessage(text)),
                                           ErrorMessage(ErrClientKey)),
                       !.isLoading = FALSE, !.error = ErrClientKey]
         badKey == ~Truthy(hook.apiKey) \/ ~useChatValidateApiKey(hook.apiKey)
     IN
       IF StrLen(text) = 0
       THEN UNCHANGED <<hook, send>>
       ELSE IF badKey
       THEN hook' = refused /\ UNCHANGED send
       ELSE /\ Waiting < MaxSends
            /\ hook' = started
            /\ send' = [send EXCEPT ![FreeSlot] =
                          [at |-> IF hook.demoMode THEN "timer" ELSE "post",
                           content |-> text, model |-> hook.model,
                           apiKey |-> hook.apiKey]]
  /\ UNCHANGED <<serverVars, unitVars, keyPosts>>

\* A sendMessage that posts whatever the stored key is.
sendMessage_PostsAnyKey(content) ==
  /\ Len(hook.messages) + Waiting + 2 <= MaxMessages
  /\ LET text == Trim(content)
         started == [hook EXCEPT !.messages = Append(@, UserMessage(text)),
                                 !.isLoading = TRUE, !.error = Null]
         refused == [hook EXCEPT
                       !.messages = Append(Append(@, UserMessage(text)),
                                           ErrorMessage(ErrClientKey)),
                       !.isLoading = FALSE, !.error = ErrClientKey]
         badKey == ~Truthy(hook.apiKey) \/ ~useChatValidateApiKey(hook.apiKey)
     IN
       IF StrLen(text) = 0
       THEN UNCHANGED <<hook, send>>
       ELSE /\ Waiting < MaxSends
            /\ hook' = started
            /\ send' = [send EXCEPT ![FreeSlot] =
                          [at |-> IF hook.demoMode THEN "timer" ELSE "post",
                           content |-> text, model |-> hook.model,
                           apiKey |-> hook.apiKey]]
  /\ UNCHANGED <<serverVars, unitVars, keyPosts>>

\* sendMessage(content) up to its first await, or to its end when it does not
\* await: blank content returns at once; a missing or malformed key throws
\* into the catch block.
sendMessage(content) ==
  /\ Len(hook.messages) + Waiting + 2 <= MaxMessages
  /\ LET text == Trim(content)
         started == [hook EXCEPT !.messages = Append(@, UserMessage(text)),
                                 !.isLoading = TRUE, !.error = Null]
         refused == [hook EXCEPT
                       !.messages = Append(Append(@, UserMessage(text)),
                                           ErrorMessage(ErrClientKey)),
                       !.isLoading = FALSE, !.error = ErrClientKey]
         badKey == ~Truthy(hook.apiKey) \/ ~useChatValidateApiKey(hook.apiKey)
     IN
       IF StrLen(text) = 0
       THEN UNCHANGED <<hook, send>>
       ELSE IF hook.demoMode
       THEN /\ Waiting < MaxSends
            /\ hook' = started
            /\ send' = [send EXCEPT ![FreeSlot] =
                          [at |-> "timer", content |-> text, model |-> hook.model,
                           apiKey |-> hook.apiKey]]
       ELSE IF badKey
       THEN hook' = refused /\ UNCHANGED send
       ELSE /\ Waiting < MaxSends
            /\ hook' = started
            /\ send' = [send EXCEPT ![FreeSlot] =
                          [at |-> "post", content |-> text, model |-> hook.model,
                           apiKey |-> hook.apiKey]]
  /\ UNCHANGED <<serverVars, unitVars, keyPosts>>

\* The demo branch of a sendMessage call after its delay.
DemoDelayEnds(i, up) ==
  /\ send[i].at = "timer"
  /\ LET promptTokens == estimatePromptTokens(send[i].content)
         completionTokens == DEMO_COMPLETION_TOKENS
         totalTokens == promptTokens + completionTokens
         cost == ToFixed6(calculateDemoCost(send[i].model, promptTokens, completionTokens), up)
     IN hook' = [hook EXCEPT
          !.messages = Append(@, AssistantMessage(DemoContent(send[i].model),
              [promptTokens |-> promptTokens, completionTokens |-> completionTokens,
               totalTokens |-> totalTokens, cost |-> cost], TRUE)),
          !.isLoading = FALSE]
  /\ send' = [send EXCEPT ![i] = NoSend]
  /\ UNCHANGED <<serverVars, unitVars, keyPosts>>

\* A sendMessage whose setIsLoading(false) follows the request inside the try
\* block, not in a finally block.
PostSettles_NoFinally(i, outcome) ==
  /\ send[i].at = "post"
  /\ IF outcome.kind = "ok"
     THEN hook' = [hook EXCEPT
            !.messages = Append(@, AssistantMessage(outcome.content, outcome.usage, FALSE)),
            !.isLoading = FALSE]
     ELSE LET errorMessage ==
                IF outcome.dataError # None THEN outcome.dataError
                ELSE IF outcome.message # None THEN outcome.message
                ELSE ErrSendFallback
          IN hook' = [hook EXCEPT
               !.messages = Append(@, ErrorMessage(errorMessage)),
               !.error = errorMessage]
  /\ send' = [send EXCEPT ![i] = NoSend]
  /\ UNCHANGED <<serverVars, unitVars, keyPosts>>

\* The real branch of a sendMessage call after axios.post settles.
PostSettles(i, outcome) ==
  /\ send[i].at = "post"
  /\ IF outcome.kind = "ok"
     THEN hook' = [hook EXCEPT
            !.messages = Append(@, AssistantMessage(outcome.content, outcome.usage, FALSE)),
            !.isLoading = FALSE]
     ELSE LET errorMessage ==
                IF outcome.dataError # None THEN outcome.dataError
                ELSE IF outcome.message # None THEN outcome.message
                ELSE ErrSendFallback
          IN hook' = [hook EXCEPT
               !.messages = Append(@, ErrorMessage(errorMessage)),
               !.isLoading = FALSE, !.error = errorMessage]
  /\ send' = [send EXCEPT ![i] = NoSend]
  /\ UNCHANGED <<serverVars, unitVars, keyPosts>>

\* The validateKeyWithBackend calls followed at a time.
MaxKeyPosts == 1

ErrValidateFallback == "Failed to validate API key"

\* How axios.post(`${API_BASE_URL}/validate-key`) settles: the backend's
\* verdict, an error response with data.error, an error with none.
KeyPostOutcomes ==
  { [kind |-> "ok", valid |-> TRUE, dataError |-> None],
    [kind |-> "ok", valid |-> FALSE, dataError |-> None],
    [kind |-> "error_response", valid |-> FALSE, dataError |-> ErrUnexpected],
    [kind |-> "network", valid |-> FALSE, dataError |-> None] }

\* validateKeyWithBackend(key) up to its await: a missing or malformed key
\* returns false at once.
validateKeyWithBackend(key) ==
  /\ IF ~Truthy(key) \/ ~useChatValidateApiKey(key)
     THEN UNCHANGED keyPosts
     ELSE /\ keyPosts < MaxKeyPosts
          /\ keyPosts' = keyPosts + 1
  /\ UNCHANGED <<serverVars, unitVars, hook, send>>

\* A validateKeyWithBackend that ends with setIsLoading(false).
KeyPostSettles_ClearsLoading(outcome) ==
  /\ keyPosts > 0
  /\ keyPosts' = keyPosts - 1
  /\ IF outcome.kind = "ok"
     THEN hook' = [hook EXCEPT !.isLoading = FALSE]
     ELSE hook' = [hook EXCEPT !.isLoading = FALSE,
                               !.error = IF outcome.dataError # None
                                         THEN outcome.dataError
                                         ELSE ErrValidateFallback]
  /\ UNCHANGED <<serverVars, unitVars, send>>

\* validateKeyWithBackend after axios.post settles.
KeyPostSettles(outcome) ==
  /\ keyPosts > 0
  /\ keyPosts' = keyPosts - 1
  /\ IF outcome.kind = "ok"
     THEN UNCHANGED hook
     ELSE hook' = [hook EXCEPT !.error = IF outcome.dataError # None
                                         THEN outcome.dataError
                                         ELSE ErrValidateFallback]
  /\ UNCHANGED <<serverVars, unitVars, send>>

ClientNext ==
  \/ \E m \in ClientModels : setModel(m)
  \/ \E k \in ClientKeys : setApiKey(k)
  \/ \E on \in BOOLEAN : setDemoMode(on)
  \/ toggleDemoMode
  \/ clearError
  \/ clearChat
  \/ \E content \in Contents : ~hook.isLoading /\ sendMessage(content)
  \/ \E i \in SendSlots : \E up \in BOOLEAN : DemoDelayEnds(i, up)
  \/ \E i \in SendSlots : \E outcome \in PostOutcomes(send[i].model) : PostSettles(i, outcome)
  \/ \E k \in ClientKeys : validateKeyWithBackend(k)
  \/ \E outcome \in KeyPostOutcomes : KeyPostSettles(outcome)

ClientSpec == Init /\ [][ClientNext]_vars

\* The options of the model select.
MODELS == {"gpt-3.5-turbo", "gpt-4"}

\* The hook with fewer values to choose from, and with every timer firing and
\* every request settling.
LiveContents == { <<Run(" ", 2)>>, <<Run("Hi", 1)>> }
LiveClientKeys == { Str(<<>>), KeyA }

LiveClientNext ==
  \/ \E m \in MODELS : setModel(m)
  \/ \E k \in LiveClientKeys : setApiKey(k)
  \/ \E on \in BOOLEAN : setDemoMode(on)
  \/ toggleDemoMode
  \/ clearError
  \/ clearChat
  \/ \E content \in LiveContents : ~hook.isLoading /\ sendMessage(content)
  \/ \E i \in SendSlots : \E up \in BOOLEAN : DemoDelayEnds(i, up)
  \/ \E i \in SendSlots : \E outcome \in PostOutcomes(send[i].model) : PostSettles(i, outcome)
  \/ \E k \in LiveClientKeys : validateKeyWithBackend(k)
  \/ \E outcome \in KeyPostOutcomes : KeyPostSettles(outcome)

FairClientSpec ==
  /\ Init /\ [][LiveClientNext]_vars
  /\ \A i \in SendSlots :
       /\ WF_vars(\E up \in BOOLEAN : DemoDelayEnds(i, up))
       /\ WF_vars(\E outcome \in PostOutcomes(send[i].model) : PostSettles(i, outcome))

(***************************************************************************)
(* The client as ChatInterface drives it: the hook's operations behind the *)
(* controls of MessageInput and SettingsPanel.                             *)
(***************************************************************************)
\* MessageInput: the textarea and the button are disabled while isLoading;
\* handleSend returns on blank input, else onSend(input.trim()).
handleSend(input) ==
  /\ ~hook.isLoading
  /\ StrLen(Trim(input)) > 0
  /\ sendMessage(Trim(input))

\* ChatInterface.handleApiKeyChange behind the key input, which is disabled
\* in demo mode: setApiKey(newKey), then validateKeyWithBackend(newKey) when
\* newKey is truthy and demo mode is off.
handleApiKeyChange(newKey) ==
  /\ ~hook.demoMode
  /\ hook' = [hook EXCEPT !.apiKey = newKey]
  /\ IF Truthy(newKey) /\ ~hook.demoMode /\ useChatValidateApiKey(newKey)
     THEN /\ keyPosts < MaxKeyPosts
          /\ keyPosts' = keyPosts + 1
     ELSE UNCHANGED keyPosts
  /\ UNCHANGED <<serverVars, unitVars, send>>

\* The model select, which is disabled in demo mode: onModelChange(e.target.value)
handleModelChange(m) ==
  /\ ~hook.demoMode
  /\ setModel(m)

UINext ==
  \/ \E input \in Contents : handleSend(input)
  \/ \E newKey \in ClientKeys : handleApiKeyChange(newKey)
  \/ \E m \in MODELS : handleModelChange(m)
  \/ toggleDemoMode
  \/ clearError
  \/ \E i \in SendSlots : \E up \in BOOLEAN : DemoDelayEnds(i, up)
  \/ \E i \in SendSlots : \E outcome \in PostOutcomes(send[i].model) : PostSettles(i, outcome)
  \/ \E outcome \in KeyPostOutcomes : KeyPostSettles(outcome)

UISpec == Init /\ [][UINext]_vars

\* C16: the cost the demo branch attaches to an exchange is the cost
\* calculateCost returns for the same model, prompt tokens and completion
\* tokens, also for a model that is not in the price table.
C16_DemoCostIsCalculateCost ==
  [][ \A i \in SendSlots :
        (send[i].at = "timer" /\ send'[i].at = "none") =>
          LET m == hook'.messages[Len(hook'.messages)] IN
            m.usage.cost = calculateCost(send[i].model, m.usage.promptTokens,
                                         m.usage.completionTokens) ]_vars


(***************************************************************************)
(* Requests handled side by side.                                          *)
(***************************************************************************)
\* The response the route's handlers give a request that is handled with no
\* other request in the server: from its route, its body and what the provider
\* answered to its own call.
HandledAlone(route, b, outcome) ==
  CASE route = "POST /chat" ->
         IF ChatRejection(b) # "" THEN BadRequest(ChatRejection(b))
         ELSE IF Truthy(b.demoMode)
         THEN [NoResponse EXCEPT !.status = 200,
                 !.content = getDemoResponse(Str(Sanitize(b.message.s)), Text(b.model)),
                 !.hasUsage = TRUE, !.usage = NoUsage]
         ELSE LET result == getChatCompletion(Text(b.model), outcome) IN
                IF result.threw
                THEN ServerError("Failed to process chat message", result.message)
                ELSE [NoResponse EXCEPT !.status = 200, !.content = result.content,
                        !.hasUsage = TRUE, !.usage = result.usage]
    [] route = "POST /validate-key" ->
         IF KeyRejection(b) # "" THEN BadRequest(KeyRejection(b))
         ELSE [NoResponse EXCEPT !.status = 200, !.hasValid = TRUE,
                 !.valid = validateApiKey(outcome).value]
    [] OTHER -> [NoResponse EXCEPT !.status = 200, !.models = ModelList]

Routes == {"POST /chat", "POST /validate-key", "GET /models"}

\* C17: under every interleaving of POST /chat, POST /validate-key and
\* GET /models requests, the response a request gets from the route handlers
\* is the one it would get alone with the same provider outcome, and a request
\* can always take its own next step, whatever the other requests wait for.
C17_RequestsAreIndependent ==
  \A r \in Requests :
    /\ (pc[r] \in Terminal /\ Validated(r)) =>
         res[r] = HandledAlone(req[r].route, req[r].body, call[r].outcome)
    /\ (pc[r] \in Terminal /\ ~Validated(r)) =>
         \E err \in JsonErrors : res[r] = errorHandler(err)
    /\ pc[r] \notin Terminal => res[r] = NoResponse
    /\ pc[r] = "idle" => \A route \in Routes : \A ip \in IPs : ENABLED Receive(r, route, ip)
    /\ pc[r] \notin Terminal \cup {"idle"} => ENABLED Step(r)

\* A demo request answered while a request for another model still waits for
\* the provider.
C17_Witness ==
  \E r1, r2 \in Requests :
    /\ r1 # r2
    /\ pc[r1] = "upstream-path" /\ pc[r2] = "responded"
    /\ IsChat(r2) /\ Truthy(body[r2].demoMode)
    /\ Text(body[r1].model) # Text(body[r2].model)


\* C18: every provider call, completion or model listing, is made on a client
\* built in the same request from that request's own credential, so with
\* requests that carry different credentials no call uses another request's.
C18_OwnCredentialOnly ==
  \A r \in Requests :
    /\ call[r].op # "none" =>
         /\ call[r].apiKey = req[r].body.apiKey
         /\ isValidApiKey(call[r].apiKey)
         /\ Count(log[r], call[r].op) = 1
    /\ call[r].op = "none" => \A i \in DOMAIN log[r] : log[r][i] \notin ProviderCalls

\* A completion and a key check in flight at once, with different credentials.
C18_Witness ==
  \E r1, r2 \in Requests :
    /\ call[r1].op = "chat.completions.create" /\ call[r1].apiKey = KeyA
    /\ call[r2].op = "models.list" /\ call[r2].apiKey = KeyB
    /\ call[r1].outcome = Pending /\ call[r2].outcome = Pending


(***************************************************************************)
(* The message that is forwarded.                                          *)
(***************************************************************************)
\* The validator of the chat request called next().
Passed(r) == IsChat(r) /\ Count(log[r], "next") = 1

Submitted(r) == req[r].body.message.s
\* The message the handler reads from req.body and hands on.
Forwarded(r) == body[r].message.s

NoAngleBracket(runs) ==
  \A i \in DOMAIN runs :
    \A j \in DOMAIN UnitChars(runs[i].u) : UnitChars(runs[i].u)[j] \notin {"<", ">"}

\* to is from with every '<' and '>' replaced by its entity, and nothing else
\* changed.
Replaced(from, to) ==
  /\ Len(to) = Len(from)
  /\ \A i \in DOMAIN from :
       /\ to[i].k = from[i].k
       /\ from[i].u = "<" => to[i].u = "&lt;"
       /\ from[i].u = ">" => to[i].u = "&gt;"
       /\ from[i].u \notin {"<", ">"} => to[i].u = from[i].u

Blank(runs) == \A i \in DOMAIN runs : runs[i].u \in WhiteSpace

\* inner is outer without the white space at its two ends.
Trimmed(outer, inner) ==
  \E i \in 1..(Len(outer) + 1) : \E j \in 0..Len(outer) :
    /\ inner = SubSeq(outer, i, j)
    /\ Blank(SubSeq(outer, 1, i - 1)) /\ Blank(SubSeq(outer, j + 1, Len(outer)))
    /\ inner # <<>> => (inner[1].u \notin WhiteSpace /\ inner[Len(inner)].u \notin WhiteSpace)

\* The completion call carries the message the handler read.
CallCarriesForwarded(r) ==
  call[r].op = "chat.completions.create" => call[r].message = Forwarded(r)

C20_ForwardedWithinLimit ==
  \A r \in Requests :
    Passed(r) =>
      /\ StrLen(Forwarded(r)) <= MaxMessageLength
      /\ StrLen(call[r].message) <= MaxMessageLength


(***************************************************************************)
(* Error bodies.                                                           *)
(***************************************************************************)
\* The fixed strings the server's own code puts in an error field.
GenericErrors ==
  { ErrMessageRequired, ErrMessageTooLong, ErrInvalidModel, ErrInvalidKey,
    ErrChatFailed, "Failed to validate API key", ErrUnexpected }

\* What the provider or an exception said.
ExceptionMessages ==
  { o.message : o \in ProviderOutcomes } \cup { o.responseMessage : o \in ProviderOutcomes }
    \cup { err.message : err \in JsonErrors } \cup { ErrOpenAIFallback }

\* C21: while the process runs in production every error response, from
\* POST /chat, POST /validate-key or the global error handler, carries a fixed
\* generic error string, no details, and nowhere the provider's or the
\* exception's message.
C21_NoMessageInProduction ==
  env = "production" =>
    \A r \in Requests :
      res[r].status >= 400 =>
        /\ res[r].error \in GenericErrors
        /\ res[r].details = None
        /\ res[r].error \notin ExceptionMessages \ {None}
        /\ res[r].content = None /\ ~res[r].hasUsage /\ ~res[r].hasValid

\* In production: one request refused by the provider and one whose body was
\* not JSON, both answered.
C21_Witness ==
  /\ env = "production"
  /\ \E r1, r2 \in Requests :
       /\ call[r1].outcome.kind = "invalid_key" /\ res[r1].status = 500
       /\ Count(log[r2], "next(err)") = 1 /\ res[r2].status = 400


(***************************************************************************)
(* The rate limiter: two addresses, each with a count of earlier requests   *)
(* in the window that is none, one below the ceiling, or the ceiling.       *)
(***************************************************************************)
HitsAtStart == {0, RateLimitMax - 1, RateLimitMax}

LimitInit ==
  /\ env \in Environments
  /\ pc = [r \in Requests |-> "idle"]
  /\ req = [r \in Requests |-> NoRequest]
  /\ body = [r \in Requests |-> NoBody]
  /\ call = [r \in Requests |-> NoCall]
  /\ res = [r \in Requests |-> NoResponse]
  /\ log = [r \in Requests |-> <<>>]
  /\ hits \in [IPs -> HitsAtStart]
  /\ estimate = NoEstimate
  /\ keyCheck = NoKeyCheck
  /\ hook = InitialHook
  /\ send = [i \in SendSlots |-> NoSend]
  /\ keyPosts = 0

LimitNext ==
  \/ \E r \in Requests :
       \/ \E ip \in IPs : Receive(r, "POST /chat", ip)
       \/ \E ip \in IPs : Receive(r, "POST /validate-key", ip)
       \/ \E ip \in IPs : Receive(r, "GET /models", ip)
       \/ Step(r)
  \/ WindowEnds

LimitSpec == LimitInit /\ [][LimitNext]_vars

\* The request r arrives in this step.
Arrives(r) == pc[r] = "idle" /\ pc'[r] # "idle"

\* A request the limiter answered: it never reached the parser, a validator,
\* the demo responder or the provider, and its answer stays.
LimitedStaysOut ==
  \A r \in Requests :
    pc[r] = "limited" =>
      /\ res[r].status = 429 /\ res[r].text = ErrTooMany
      /\ log[r] = <<"res.status(429).send">>
      /\ req[r].body = NoBody /\ body[r] = NoBody
      /\ NothingStarted(r)

\* A request that arrives is admitted when its address has sent fewer than 100
\* requests in this window and answered 429 otherwise; it is counted for its
\* own address only; a limited request takes no further step.
LimiterStep ==
  \A r \in Requests :
    /\ Arrives(r) =>
         LET ip == req'[r].ip IN
           /\ ip \in IPs
           /\ hits[ip] < RateLimitMax => pc'[r] = "received" /\ res'[r] = NoResponse
           /\ hits[ip] >= RateLimitMax => pc'[r] = "limited" /\ res'[r].status = 429
           /\ hits'[ip] = hits[ip] + 1
           /\ \A other \in IPs \ {ip} : hits'[other] = hits[other]
    /\ pc[r] = "limited" =>
         /\ pc'[r] = "limited" /\ res'[r] = res[r] /\ log'[r] = log[r]
         /\ call'[r] = call[r] /\ body'[r] = body[r]
    /\ res'[r].status = 429 => (pc'[r] = "limited" /\ (Arrives(r) \/ pc[r] = "limited"))

KeyPrefixes == {"sk-", "SK-", "sk"}
KeyTailUnits == {"a", "Z", "7", "-", "_", ".", " ", "\n"}
KeyTailLengths == {1, MinKeyTail - 1, MinKeyTail, MinKeyTail + 1}

KeyCandidates ==
  { Undefined, Num(42), Bool(TRUE), Str(<<>>), Lit("sk-"), Lit("not-a-key"),
    Str(<<Run(" ", 1), Run("sk-", 1), Run("a", MinKeyTail)>>),
    Str(<<Run("a", MinKeyTail), Run("sk-", 1)>>) }
  \cup { Str(<<Run(p, 1), Run(c, n)>>) :
           p \in KeyPrefixes, c \in KeyTailUnits, n \in KeyTailLengths }
  \cup { Str(<<Run("sk-", 1), Run("a", MinKeyTail - 1), Run(c, 1)>>) : c \in KeyTailUnits }
  \cup { Str(<<Run("sk-", 1), Run("a", MinKeyTail), Run(c, 1)>>) : c \in KeyTailUnits }

KeyInit ==
  /\ env \in Environments
  /\ pc = [r \in Requests |-> "idle"]
  /\ req = [r \in Requests |-> NoRequest]
  /\ body = [r \in Requests |-> NoBody]
  /\ call = [r \in Requests |-> NoCall]
  /\ res = [r \in Requests |-> NoResponse]
  /\ log = [r \in Requests |-> <<>>]
  /\ hits = [ip \in IPs |-> 0]
  /\ estimate = NoEstimate
  /\ keyCheck \in [key : KeyCandidates, applied : {FALSE}, result : {FALSE}]
  /\ hook = InitialHook
  /\ send = [i \in SendSlots |-> NoSend]
  /\ keyPosts = 0

\* isValidApiKey(key) is called and returns.
CallIsValidApiKey ==
  /\ ~keyCheck.applied
  /\ keyCheck' = [keyCheck EXCEPT !.applied = TRUE, !.result = isValidApiKey(keyCheck.key)]
  /\ UNCHANGED <<serverVars, clientVars, estimate>>

KeySpec == KeyInit /\ [][CallIsValidApiKey]_vars

\* A text value that is sk- followed by at least 20 characters, each a letter,
\* a digit, a hyphen or an underscore.
CredentialFormat(key) ==
  /\ key.t = "string"
  /\ LET c == Chars(key.s)
         tail == SubSeq(c, 4, Len(c))
     IN /\ Len(c) >= 3
        /\ SubSeq(c, 1, 3) = <<"s", "k", "-">>
        /\ Len(tail) >= 20
        /\ { tail[i] : i \in DOMAIN tail } \subseteq Letters \cup Digits \cup {"-", "_"}

IsModels(r) == req[r].route = "GET /models"

\* C23: every GET /models call is answered with the same list of two entries,
\* gpt-3.5-turbo then gpt-4, each with id and name, whatever requests to any
\* endpoint came before it and however they ended.
C23_ModelsAlwaysTheSame ==
  \A r \in Requests :
    (IsModels(r) /\ pc[r] \in Terminal) =>
      /\ pc[r] = "responded" /\ res[r].status = 200
      /\ res[r].models = << [id |-> "gpt-3.5-turbo", name |-> "GPT-3.5 Turbo"],
                            [id |-> "gpt-4", name |-> "GPT-4"] >>
      /\ res[r].error = None
      /\ \A q \in Requests :
           (IsModels(q) /\ pc[q] \in Terminal) => res[q] = res[r]

\* The list served after a chat request that the provider failed.
C23_Witness ==
  \E r1, r2 \in Requests :
    /\ IsChat(r1) /\ pc[r1] = "errored" /\ res[r1].status = 500
    /\ IsModels(r2) /\ pc[r2] = "responded" /\ Len(res[r2].models) = 2


(***************************************************************************)
(* The hook's sendMessage and toggleDemoMode.                              *)
(***************************************************************************)
\* The step is sendMessage(content) with content that is not blank.
Sends(content) == StrLen(Trim(content)) > 0 /\ sendMessage(content)

\* The sendMessage calls the step starts and the ones it ends.
Started == {i \in SendSlots : send[i].at = "none" /\ send'[i].at # "none"}
Ended == {i \in SendSlots : send[i].at # "none" /\ send'[i].at = "none"}

\* The step appends exactly the messages added to the list.
Appends(added) == hook'.messages = hook.messages \o added

\* C25: with demo mode on, sendMessage of a non-blank message issues no
\* backend request and asks for no API key: whatever the stored key is, it
\* only starts the simulated delay, and when the delay ends exactly one
\* assistant message is appended, which is no error and whose content is the
\* demo response naming the model that was selected when the message was
\* sent, whatever the message text.
C25_DemoSendStaysLocal ==
  [][ /\ \A content \in Contents :
           (hook.demoMode /\ Sends(content)) =>
             /\ Cardinality(Started) = 1 /\ Ended = {}
             /\ \A i \in Started : send'[i].at = "timer" /\ send'[i].model = hook.model
             /\ Appends(<<UserMessage(Trim(content))>>)
             /\ hook'.error = Null
      /\ \A i \in SendSlots :
           /\ send[i].at = "timer" => send'[i].at \in {"timer", "none"}
           /\ (send[i].at = "timer" /\ i \in Ended) =>
                \E m \in {hook'.messages[Len(hook'.messages)]} :
                  /\ Appends(<<m>>)
                  /\ m.role = "assistant" /\ m.demo /\ ~m.isError
                  /\ m.content = DemoContent(send[i].model) ]_vars

\* C25 happens: a demo exchange on gpt-4 has completed while no key is stored.
C25_Witness ==
  /\ hook.demoMode /\ hook.apiKey = Str(<<>>) /\ Waiting = 0
  /\ Len(hook.messages) = 2
  /\ hook.messages[1] = UserMessage(<<Run("Hi", 1)>>)
  /\ hook.messages[2].demo
  /\ hook.messages[2].content = DemoContent("gpt-4")

\* C26: with demo mode off and a stored key that is empty or not of the
\* credential format, sendMessage of a non-blank message issues no backend
\* request: it ends at once with the error state set and with the user
\* message and one assistant message flagged isError appended, whatever
\* setApiKey and toggleDemoMode calls came before.
C26_BadKeySendsNothing ==
  [][ \A content \in Contents :
        (~hook.demoMode /\ ~CredentialFormat(hook.apiKey) /\ Sends(content)) =>
          /\ send' = send
          /\ ~hook'.isLoading
          /\ hook'.error # Null
          /\ \E m \in {hook'.messages[Len(hook'.messages)]} :
               /\ Appends(<<UserMessage(Trim(content)), m>>)
               /\ m.role = "assistant" /\ m.isError ]_vars

\* C26 happens: a message was sent with demo mode off and a malformed key
\* stored, and the list holds it and its error message.
C26_Witness ==
  /\ ~hook.demoMode /\ hook.apiKey = Lit("not-a-key") /\ Waiting = 0
  /\ hook.error = ErrClientKey
  /\ Len(hook.messages) = 2
  /\ hook.messages[1].role = "user"
  /\ hook.messages[2].isError

\* C27: driven through the chat UI, the input is disabled while a send is
\* waiting, so at most one sendMessage call is waiting at a time, and the
\* message list is always a sequence of exchanges, a user message followed at
\* once by its one assistant message (a reply or an error message), with at
\* most one unanswered user message at its end, which is there exactly while
\* its send is waiting.
C27_OneExchangeAtATime ==
  /\ Waiting <= 1
  /\ Waiting = 1 =>
       /\ hook.isLoading
       /\ \A input \in Contents : ~ENABLED handleSend(input)
  /\ \A i \in DOMAIN hook.messages :
       hook.messages[i].role = IF i % 2 = 1 THEN "user" ELSE "assistant"
  /\ \A i \in DOMAIN hook.messages :
       hook.messages[i].role = "user" => ~hook.messages[i].isError
  /\ (Len(hook.messages) % 2 = 1) <=> (Waiting = 1)

\* C27 happens: after an exchange that ended in an error message, a second
\* user message is waiting for its reply with the input disabled.
C27_Witness ==
  /\ Len(hook.messages) = 3
  /\ hook.messages[2].isError
  /\ Waiting = 1 /\ hook.isLoading

\* What one step does to the calls and to the list: a sendMessage of non-blank
\* content either starts one call, with isLoading true and the user message
\* appended, or fails the key check at once, with isLoading false and the
\* user message and one error message appended; a call that ends appends
\* exactly one assistant message and sets isLoading false; no other step
\* appends a message.
SendStep ==
  /\ \A content \in Contents :
       Sends(content) =>
         \/ /\ Cardinality(Started) = 1 /\ Ended = {}
            /\ hook'.isLoading
            /\ Appends(<<UserMessage(Trim(content))>>)
         \/ /\ Started = {} /\ Ended = {}
            /\ ~hook'.isLoading
            /\ \E m \in {hook'.messages[Len(hook'.messages)]} :
                 /\ Appends(<<UserMessage(Trim(content)), m>>)
                 /\ m.role = "assistant" /\ m.isError
  /\ Started # {} => \E content \in Contents : Sends(content)
  /\ Ended # {} =>
       /\ Cardinality(Ended) = 1 /\ Started = {}
       /\ ~hook'.isLoading
       /\ \E m \in {hook'.messages[Len(hook'.messages)]} :
            Appends(<<m>>) /\ m.role = "assistant"
  /\ (Started = {} /\ Ended = {} /\ hook'.messages # hook.messages) =>
       \/ hook'.messages = <<>>
       \/ \E content \in Contents : Sends(content)

\* C28: every sendMessage of non-blank content sets isLoading true and, whether
\* it succeeds, fails the key check or fails at the backend, in the end sets
\* isLoading false with exactly one assistant message appended for it; and
\* isLoading is false whenever no send is waiting.
C28_EverySendEnds ==
  /\ [](Waiting = 0 => ~hook.isLoading)
  /\ [][SendStep]_vars
  /\ \A i \in SendSlots : (send[i].at # "none") ~> (send[i].at = "none" /\ ~hook.isLoading)

\* C28 happens: a send that failed at the backend has ended with its error
\* message appended and isLoading false.
C28_Witness ==
  /\ Len(hook.messages) = 2
  /\ hook.messages[2].isError
  /\ hook.error = "Network Error"
  /\ Waiting = 0 /\ ~hook.isLoading

\* C29: every message that passes the chat validator is non-empty when it is
\* forwarded: the sanitized and trimmed message of an accepted POST /chat
\* request, which the demo responder or the provider call receives, has at
\* least one character.
C29_ForwardedIsNonEmpty ==
  \A r \in Requests :
    Passed(r) =>
      /\ StrLen(Forwarded(r)) > 0
      /\ call[r].op = "chat.completions.create" => StrLen(call[r].message) > 0

\* C30: toggleDemoMode flips demoMode and clears the error; switching demo
\* mode on also resets the stored apiKey to the empty string, switching it off
\* leaves apiKey as it is; messages, model and isLoading are unchanged either
\* way, and so are the calls that wait.  So right after demo mode is switched
\* on by it, apiKey is empty.
C30_ToggleDemoMode ==
  [][ toggleDemoMode =>
        /\ hook'.demoMode = ~hook.demoMode
        /\ hook'.error = Null
        /\ hook'.demoMode => hook'.apiKey = Str(<<>>)
        /\ ~hook'.demoMode => hook'.apiKey = hook.apiKey
        /\ hook'.messages = hook.messages
        /\ hook'.model = hook.model
        /\ hook'.isLoading = hook.isLoading
        /\ send' = send /\ keyPosts' = keyPosts ]_vars

\* C30 happens: demo mode is on with no key stored and no error shown, after
\* an exchange that failed for its key and left its error message in the list.
C30_Witness ==
  /\ hook.demoMode /\ hook.apiKey = Str(<<>>) /\ hook.error = Null
  /\ Len(hook.messages) = 2
  /\ hook.messages[2] = ErrorMessage(ErrClientKey)
====
